---- MODULE Spec2Model ----
(***************************************************************************)
(* Model of backend/nlp_service.py: the reveal schedule computed inside    *)
(* generate_video_from_summary, the video pipeline with its temporary      *)
(* files, and process_article with the script's main block.                *)
(*                                                                         *)
(* Times are exact rationals.  A narration duration is a whole number of   *)
(* ticks, TicksPerSec ticks to the second; the comparison                  *)
(*     i / fps >= (audio_duration / num_words) * j                         *)
(* of the source is evaluated by cross-multiplication.                     *)
(***************************************************************************)
EXTENDS Integers, Sequences, FiniteSets, TLC

\* ---------------------------------------------------------------- bounds
TicksPerSec == 20
MaxWords == 4
MaxDurTicks == 4 * TicksPerSec

MaxVWords == 2
MaxVDurTicks == 1

\* fps = 30 (generate_video_from_summary)
fps == 30
\* frame rates the schedule is evaluated at: the program's, and a slow one
FpsSet == {2, fps}

VARIABLES
    \* --- reveal schedule (generate_video_from_summary, step 3)
    num_words,        \* len(summary.split())
    audio_duration,   \* audio_segment.duration_seconds, in ticks
    sched_fps,        \* fps
    frame_i,          \* loop variable i of "for i in range(total_frames)"
    schedule,         \* words_to_show_count of every frame rendered so far
    sched_pc          \* "loop" | "done"

schedVars == <<num_words, audio_duration, sched_fps, frame_i, schedule, sched_pc>>

VARIABLES
    \* --- generate_video_from_summary, one entry per concurrent call
    v_pc,             \* position of the call in the function
    v_words,          \* number of words of the summary argument (0: empty)
    v_image_url,      \* TRUE iff the image_url argument is non-empty
    temp_files,       \* temp_files, the list the finally block walks
    v_duration,       \* audio_duration, in ticks
    v_i,              \* loop variable i of the frame loop
    fin_i,            \* position of the finally block in temp_files
    v_ret,            \* "pending" | "None" | "path" | "raised"
    encoder,          \* what the encoder was given, <<>> until it is invoked
    accessed,         \* the paths the call has written, read or deleted
    v_log,            \* the steps the call has taken, in order
    fs                \* the filesystem: existing path -> content

videoVars == <<v_pc, v_words, v_image_url, temp_files, v_duration, v_i, fin_i,
               v_ret, encoder, accessed, v_log, fs>>

VARIABLES
    \* --- the main block and process_article
    m_pc,             \* position of the script
    request,          \* what standard input held
    summarizer,       \* TRUE iff the summarization pipeline was initialized
    article,          \* the Article of the current attempt, once extracted
    attempt,          \* loop variable of "for attempt in range(MAX_RETRIES)"
    sleeps,           \* the arguments of time.sleep, in order
    response_data,    \* the dictionary process_article fills and returns
    ran,              \* the stages called, in order
    failed,           \* the stages whose call failed
    stdout,           \* the JSON objects written to standard output
    stderr,           \* the JSON objects written to standard error
    exit_code         \* -1 while running, then the exit status

articleVars == <<m_pc, request, summarizer, article, attempt, sleeps,
                 response_data, ran, failed, stdout, stderr, exit_code>>

VARIABLES
    \* --- generate_post_image, one entry per concurrent call
    p_pc,             \* position of the call in the function
    p_summary,        \* TRUE iff the summary argument is non-empty
    p_url,            \* TRUE iff the background_image_url argument is non-empty
    base_img_pil,     \* [from, w, h], the background held and its source
    p_ret,            \* "pending" | "None" | "path"
    p_log             \* the steps the call has taken, in order

postVars == <<p_pc, p_summary, p_url, base_img_pil, p_ret, p_log>>

\* the variables of generate_video_from_summary other than the filesystem
callVars == <<v_pc, v_words, v_image_url, temp_files, v_duration, v_i, fin_i,
              v_ret, encoder, accessed, v_log>>

nonSchedVars == <<videoVars, articleVars, postVars>>

nonVideoVars == <<schedVars, articleVars, postVars>>

nonArticleVars == <<schedVars, videoVars, postVars>>

nonPostVars == <<schedVars, articleVars, callVars>>

vars == <<m_pc, request, summarizer, article, attempt, sleeps,
          response_data, ran, failed, stdout, stderr, exit_code,
          num_words, audio_duration, sched_fps, frame_i, schedule, sched_pc,
          v_pc, v_words, v_image_url, temp_files, v_duration, v_i, fin_i,
          v_ret, encoder, accessed, v_log, fs,
          p_pc, p_summary, p_url, base_img_pil, p_ret, p_log>>

\* ------------------------------------------------------- reveal schedule

\* mutant of TotalFrames: int() in place of math.ceil
TotalFramesFloor(d, f) == (d * f) \div TicksPerSec

\* total_frames = math.ceil(audio_duration * fps)
TotalFrames(d, f) == (d * f + TicksPerSec - 1) \div TicksPerSec

\* mutant of TimeReached: comparison flipped
TimeReachedFlipped(i, j, n, d, f) == i * n * TicksPerSec <= d * j * f

\* current_time >= display_time, for current_time = i / fps and
\* display_time = word_display_times[j] = (audio_duration / num_words) * j
TimeReached(i, j, n, d, f) == i * n * TicksPerSec >= d * j * f

\* the inner loop: scan word_display_times in order, stop at the first
\* display time not yet reached
RECURSIVE ScanWords(_, _, _, _, _, _)
ScanWords(j, count, i, n, d, f) ==
    IF j >= n THEN count
    ELSE IF TimeReached(i, j, n, d, f)
         THEN ScanWords(j + 1, j + 1, i, n, d, f)
         ELSE count

\* words_to_show_count of frame i
WordsToShow(i, n, d, f) == ScanWords(0, 0, i, n, d, f)

\* ------------------------------------------ process_article and __main__

\* MAX_RETRIES = 3
MAX_RETRIES == 3

\* the keys of response_data
ResponseFields ==
    {"title", "summary", "keywords", "top_image", "authors", "publish_date",
     "video_path", "post_image_path", "trans_hindi", "trans_marathi", "error"}

\* mutant of InitialResponse: the dictionary without the post image field
InitialResponseNoPost ==
    [f \in ResponseFields \ {"post_image_path"} |->
        IF f = "error" THEN <<>>
        ELSE IF f \in {"keywords", "authors"} THEN "[]" ELSE "None"]

\* response_data as process_article creates it.  A field is "None", "[]" or
\* "val"; error is the sequence of the notes joined into the string, <<>>
\* for None.
InitialResponse ==
    [f \in ResponseFields |->
        IF f = "error" THEN <<>>
        ELSE IF f \in {"keywords", "authors"} THEN "[]" ELSE "None"]

\* result = {"error": "No URL provided."}
NoUrlResult == [error |-> <<"No URL provided.">>]

\* the Article before a successful download
NoArticle == [fetched |-> FALSE, text |-> FALSE, top_image |-> FALSE]

\* mutant of AppendNote: the note replaces what error held
AppendNoteOverwrite(err, note) == <<note>>

\* "current_error = response_data.get('error'); if current_error: error =
\* current_error + note; else: error = note"
AppendNote(err, note) == IF err # <<>> THEN err \o <<note>> ELSE <<note>>

\* mutant of WaitTime: the exponent off by one
WaitTimeNext(a) == 2 ^ (a + 1)

\* wait_time = 2 ** attempt
WaitTime(a) == 2 ^ a

\* mutant of ExitStatus: sys.exit(1) forgotten
ExitStatusZero(uncaught) == 0

\* the exit status: sys.exit(1) in the except clauses of the main block, 0
\* when the script runs off its end
ExitStatus(uncaught) == IF uncaught THEN 1 ELSE 0

\* state before the script has read its input: what Init and the other
\* specifications start from
ArticleIdle ==
    /\ m_pc = "read"
    /\ request = "unread"
    /\ summarizer \in BOOLEAN
    /\ article = NoArticle
    /\ attempt = 0
    /\ sleeps = <<>>
    /\ response_data = InitialResponse
    /\ ran = <<>>
    /\ failed = {}
    /\ stdout = <<>>
    /\ stderr = <<>>
    /\ exit_code = -1

\* the main block up to the call of process_article: read standard input,
\* json.loads, input_data.get('url')
MRead ==
    /\ m_pc = "read"
    /\ \E r \in {"malformed", "nonobject", "nourl", "url"} :
        /\ request' = r
        /\ CASE r = "malformed" ->
                  \* json.JSONDecodeError
                  /\ stderr' = Append(stderr, [error |-> <<"Invalid JSON input to Python script.">>])
                  /\ exit_code' = ExitStatus(TRUE)
                  /\ m_pc' = "exit"
             [] r = "nonobject" ->
                  \* valid JSON that is no object: input_data.get raises
                  /\ stderr' = Append(stderr, [error |-> <<"An unexpected Python script error occurred">>])
                  /\ exit_code' = ExitStatus(TRUE)
                  /\ m_pc' = "exit"
             [] r = "nourl" ->
                  /\ m_pc' = "write"
                  /\ UNCHANGED <<stderr, exit_code>>
             [] r = "url" ->
                  /\ m_pc' = "attempt"
                  /\ UNCHANGED <<stderr, exit_code>>
    /\ response_data' = InitialResponse
    /\ UNCHANGED <<summarizer, article, attempt, sleeps, ran, failed, stdout>>
    /\ UNCHANGED nonArticleVars

\* one iteration of the retry loop up to cleaned_text: download, parse, nlp,
\* the metadata fields; with the two except clauses of the loop
MAttempt ==
    /\ m_pc = "attempt"
    /\ \/ \* the article is extracted
          /\ \E t \in BOOLEAN, img \in BOOLEAN :
              /\ article' = [fetched |-> TRUE, text |-> t, top_image |-> img]
              /\ response_data' = [response_data EXCEPT
                     !["title"] = "val", !["keywords"] = "val",
                     !["top_image"] = IF img THEN "val" ELSE "None",
                     !["authors"] = "val", !["publish_date"] = "val"]
          /\ m_pc' = "summarize"
          /\ UNCHANGED <<attempt, sleeps>>
       \/ \* requests.exceptions.RequestException
          /\ IF attempt < MAX_RETRIES - 1
             THEN /\ sleeps' = Append(sleeps, WaitTime(attempt))
                  /\ attempt' = attempt + 1
                  /\ UNCHANGED <<response_data, m_pc>>
             ELSE /\ response_data' = [response_data EXCEPT
                         !["error"] = <<"Failed to download article after 3 attempts">>]
                  /\ m_pc' = "return"
                  /\ UNCHANGED <<attempt, sleeps>>
          /\ UNCHANGED article
       \/ \* any other exception: recorded, break
          /\ response_data' = [response_data EXCEPT
                 !["error"] = <<"Failed to process article">>]
          /\ m_pc' = "return"
          /\ UNCHANGED <<article, attempt, sleeps>>
    /\ UNCHANGED <<request, summarizer, ran, failed, stdout, stderr, exit_code>>
    /\ UNCHANGED nonArticleVars

\* 2. Summarization
MSummarize ==
    /\ m_pc = "summarize"
    /\ IF summarizer /\ article.text
       THEN /\ ran' = Append(ran, "summarize")
            /\ \/ /\ response_data' = [response_data EXCEPT !["summary"] = "val"]
                  /\ UNCHANGED failed
               \/ /\ response_data' = [response_data EXCEPT
                         !["summary"] = "None",
                         !["error"] = <<"Summarization failed">>]
                  /\ failed' = failed \cup {"summarize"}
       ELSE /\ response_data' = [response_data EXCEPT
                   !["error"] = <<"Summarizer not initialized or no text to summarize.">>]
            /\ UNCHANGED <<ran, failed>>
    /\ m_pc' = "hindi"
    /\ UNCHANGED <<request, summarizer, article, attempt, sleeps, stdout, stderr, exit_code>>
    /\ UNCHANGED nonArticleVars

\* mutant of MHindi: the failed translation is not caught where it is
\* raised; it reaches the except clause of the loop, which records it and
\* breaks
MHindiAborts ==
    /\ m_pc = "hindi"
    /\ IF response_data["summary"] # "None"
       THEN /\ ran' = Append(ran, "hindi")
            /\ \/ /\ response_data' = [response_data EXCEPT !["trans_hindi"] = "val"]
                  /\ m_pc' = "marathi"
                  /\ UNCHANGED failed
               \/ /\ response_data' = [response_data EXCEPT
                         !["error"] = <<"Failed to process article">>]
                  /\ m_pc' = "return"
                  /\ failed' = failed \cup {"hindi"}
       ELSE /\ m_pc' = "marathi"
            /\ UNCHANGED <<response_data, ran, failed>>
    /\ UNCHANGED <<request, summarizer, article, attempt, sleeps, stdout, stderr, exit_code>>
    /\ UNCHANGED nonArticleVars

\* 3. Translations: Hindi
MHindi ==
    /\ m_pc = "hindi"
    /\ IF response_data["summary"] # "None"
       THEN /\ ran' = Append(ran, "hindi")
            /\ \/ /\ response_data' = [response_data EXCEPT !["trans_hindi"] = "val"]
                  /\ UNCHANGED failed
               \/ /\ response_data' = [response_data EXCEPT !["trans_hindi"] = "None"]
                  /\ failed' = failed \cup {"hindi"}
       ELSE UNCHANGED <<response_data, ran, failed>>
    /\ m_pc' = "marathi"
    /\ UNCHANGED <<request, summarizer, article, attempt, sleeps, stdout, stderr, exit_code>>
    /\ UNCHANGED nonArticleVars

\* mutant of MMarathi: the failed translation is recorded in the error
\* string as the failures of the other stages are
MMarathiRecords ==
    /\ m_pc = "marathi"
    /\ IF response_data["summary"] # "None"
       THEN /\ ran' = Append(ran, "marathi")
            /\ \/ /\ response_data' = [response_data EXCEPT !["trans_marathi"] = "val"]
                  /\ UNCHANGED failed
               \/ /\ response_data' = [response_data EXCEPT
                         !["trans_marathi"] = "None",
                         !["error"] = AppendNote(@, "Translation failed.")]
                  /\ failed' = failed \cup {"marathi"}
       ELSE UNCHANGED <<response_data, ran, failed>>
    /\ m_pc' = "video"
    /\ UNCHANGED <<request, summarizer, article, attempt, sleeps, stdout, stderr, exit_code>>
    /\ UNCHANGED nonArticleVars

\* 3. Translations: Marathi
MMarathi ==
    /\ m_pc = "marathi"
    /\ IF response_data["summary"] # "None"
       THEN /\ ran' = Append(ran, "marathi")
            /\ \/ /\ response_data' = [response_data EXCEPT !["trans_marathi"] = "val"]
                  /\ UNCHANGED failed
               \/ /\ response_data' = [response_data EXCEPT !["trans_marathi"] = "None"]
                  /\ failed' = failed \cup {"marathi"}
       ELSE UNCHANGED <<response_data, ran, failed>>
    /\ m_pc' = "video"
    /\ UNCHANGED <<request, summarizer, article, attempt, sleeps, stdout, stderr, exit_code>>
    /\ UNCHANGED nonArticleVars

\* mutant of MVideo: an exception of the video stage is not caught where it
\* is raised; it reaches the RequestException clause of the loop, which
\* sleeps and starts the next attempt
MVideoRetries ==
    /\ m_pc = "video"
    /\ IF response_data["summary"] # "None" /\ response_data["top_image"] # "None"
       THEN /\ ran' = Append(ran, "video")
            /\ \/ /\ response_data' = [response_data EXCEPT !["video_path"] = "val"]
                  /\ m_pc' = "post"
                  /\ UNCHANGED <<failed, attempt, sleeps>>
               \/ /\ response_data' = [response_data EXCEPT
                         !["video_path"] = "None",
                         !["error"] = AppendNote(@, "Video generation failed.")]
                  /\ failed' = failed \cup {"video"}
                  /\ m_pc' = "post"
                  /\ UNCHANGED <<attempt, sleeps>>
               \/ /\ failed' = failed \cup {"video"}
                  /\ IF attempt < MAX_RETRIES - 1
                     THEN /\ sleeps' = Append(sleeps, WaitTime(attempt))
                          /\ attempt' = attempt + 1
                          /\ m_pc' = "attempt"
                          /\ UNCHANGED response_data
                     ELSE /\ response_data' = [response_data EXCEPT
                                 !["error"] = <<"Failed to download article after 3 attempts">>]
                          /\ m_pc' = "return"
                          /\ UNCHANGED <<attempt, sleeps>>
       ELSE /\ response_data' = [response_data EXCEPT
                   !["error"] = AppendNote(@, "No summary or top image for video generation.")]
            /\ m_pc' = "post"
            /\ UNCHANGED <<ran, failed, attempt, sleeps>>
    /\ UNCHANGED <<request, summarizer, article, stdout, stderr, exit_code>>
    /\ UNCHANGED nonArticleVars

\* 4. Video Generation: generate_video_from_summary returns a path, returns
\* None, or raises from its finally block
MVideo ==
    /\ m_pc = "video"
    /\ IF response_data["summary"] # "None" /\ response_data["top_image"] # "None"
       THEN /\ ran' = Append(ran, "video")
            /\ \/ /\ response_data' = [response_data EXCEPT !["video_path"] = "val"]
                  /\ UNCHANGED failed
               \/ /\ response_data' = [response_data EXCEPT
                         !["video_path"] = "None",
                         !["error"] = AppendNote(@, "Video generation failed.")]
                  /\ failed' = failed \cup {"video"}
               \/ /\ response_data' = [response_data EXCEPT
                         !["video_path"] = "None",
                         !["error"] = AppendNote(@, "Unexpected video generation error")]
                  /\ failed' = failed \cup {"video"}
       ELSE /\ response_data' = [response_data EXCEPT
                   !["error"] = AppendNote(@, "No summary or top image for video generation.")]
            /\ UNCHANGED <<ran, failed>>
    /\ m_pc' = "post"
    /\ UNCHANGED <<request, summarizer, article, attempt, sleeps, stdout, stderr, exit_code>>
    /\ UNCHANGED nonArticleVars

\* 5. Post Image Generation, then "break"
MPost ==
    /\ m_pc = "post"
    /\ IF response_data["summary"] # "None"
       THEN /\ ran' = Append(ran, "post")
            /\ \/ /\ response_data' = [response_data EXCEPT !["post_image_path"] = "val"]
                  /\ UNCHANGED failed
               \/ /\ response_data' = [response_data EXCEPT
                         !["post_image_path"] = "None",
                         !["error"] = AppendNote(@, "Post image generation failed.")]
                  /\ failed' = failed \cup {"post"}
               \/ /\ response_data' = [response_data EXCEPT
                         !["post_image_path"] = "None",
                         !["error"] = AppendNote(@, "Unexpected post image generation error")]
                  /\ failed' = failed \cup {"post"}
       ELSE /\ response_data' = [response_data EXCEPT
                   !["error"] = AppendNote(@, "No summary for post image generation.")]
            /\ UNCHANGED <<ran, failed>>
    /\ m_pc' = "return"
    /\ UNCHANGED <<request, summarizer, article, attempt, sleeps, stdout, stderr, exit_code>>
    /\ UNCHANGED nonArticleVars

\* "return response_data" and "result = process_article(url)"
MReturn ==
    /\ m_pc = "return"
    /\ m_pc' = "write"
    /\ UNCHANGED <<request, summarizer, article, attempt, sleeps, response_data,
                   ran, failed, stdout, stderr, exit_code>>
    /\ UNCHANGED nonArticleVars

\* sys.stdout.write(json.dumps(result) + '\n'), and the script ends
MWrite ==
    /\ m_pc = "write"
    /\ stdout' = Append(stdout, IF request = "nourl" THEN NoUrlResult ELSE response_data)
    /\ exit_code' = ExitStatus(FALSE)
    /\ m_pc' = "exit"
    /\ UNCHANGED <<request, summarizer, article, attempt, sleeps, response_data,
                   ran, failed, stderr>>
    /\ UNCHANGED nonArticleVars


\* ------------------------------------------------- the video pipeline

\* the calls of generate_video_from_summary that run side by side, each in
\* the process of its own request
Calls == {1, 2}

\* os.path.join(temp_dir, f"audio_{os.urandom(8).hex()}.mp3"): the 64 random
\* bits are taken to differ between calls
AudioPath(c) == [kind |-> "audio", id |-> c]

\* mutant of FramePath: the numbering starts at 1
FramePathFromOne(c, i) == [kind |-> "frame", id |-> i + 1]

\* os.path.join(tempfile.gettempdir(), f"frame_{i:05d}.png")
FramePath(c, i) == [kind |-> "frame", id |-> i]

\* mutant of OutputPath: the video is written over the narration file, a
\* path that temp_files holds
OutputPathTemp(c) == AudioPath(c)

\* os.path.join(output_dir, output_filename); process_article passes
\* f"summary_video_{os.urandom(8).hex()}.mp4"
OutputPath(c) == [kind |-> "out", id |-> c]

\* a file written whole by call c; words is the words_to_show_count a frame
\* was rendered with, -1 for a file that is not a complete frame
FileBy(c, w) == [by |-> c, words |-> w]

\* the filesystem after path p is (over)written with content x
WriteFile(files, p, x) ==
    [q \in (DOMAIN files) \cup {p} |-> IF q = p THEN x ELSE files[q]]

\* the filesystem after os.remove(p)
RemoveFile(files, p) == [q \in (DOMAIN files) \ {p} |-> files[q]]

\* os.path.exists(p)
Exists(files, p) == p \in DOMAIN files

\* state in which no call has started: what VideoInit and the other
\* specifications start from
VideoIdle ==
    /\ v_pc = [c \in Calls |-> "start"]
    /\ v_words = [c \in Calls |-> 0]
    /\ v_image_url = [c \in Calls |-> FALSE]
    /\ temp_files = [c \in Calls |-> <<>>]
    /\ v_duration = [c \in Calls |-> 0]
    /\ v_i = [c \in Calls |-> 0]
    /\ fin_i = [c \in Calls |-> 1]
    /\ v_ret = [c \in Calls |-> "pending"]
    /\ encoder = [c \in Calls |-> <<>>]
    /\ accessed = [c \in Calls |-> {}]
    /\ v_log = [c \in Calls |-> <<>>]
    /\ fs = <<>>

\* base_img_pil before its assignment ("unset") and when it is None
NoImage(x) == [from |-> x, w |-> 0, h |-> 0]

\* state in which no call of generate_post_image has started
PostIdle ==
    /\ p_pc = [c \in Calls |-> "start"]
    /\ p_summary = [c \in Calls |-> FALSE]
    /\ p_url = [c \in Calls |-> FALSE]
    /\ base_img_pil = [c \in Calls |-> NoImage("unset")]
    /\ p_ret = [c \in Calls |-> "pending"]
    /\ p_log = [c \in Calls |-> <<>>]

\* the call takes step e; i and w are the index and the word count of a
\* frame written, -1 for any other step
Logged(c, e, i, w) ==
    v_log' = [v_log EXCEPT ![c] = Append(@, [ev |-> e, i |-> i, words |-> w])]

\* "return None" or an exception caught by the except clauses: the value is
\* fixed and the finally block runs
ReturnNone(c) ==
    /\ v_ret' = [v_ret EXCEPT ![c] = "None"]
    /\ v_pc' = [v_pc EXCEPT ![c] = "fin_check"]

\* entry: temp_files = [] and the guard on the arguments
VEnter(c) ==
    /\ v_pc[c] = "start"
    /\ \E n \in 0..MaxVWords, u \in BOOLEAN :
        /\ v_words' = [v_words EXCEPT ![c] = n]
        /\ v_image_url' = [v_image_url EXCEPT ![c] = u]
        /\ IF n = 0 \/ ~u
           THEN ReturnNone(c)
           ELSE /\ v_pc' = [v_pc EXCEPT ![c] = "tts"]
                /\ UNCHANGED v_ret
    /\ UNCHANGED <<temp_files, v_duration, v_i, fin_i, encoder, accessed, v_log, fs>>
    /\ UNCHANGED nonVideoVars

\* generate_tts_audio(summary, tempfile.gettempdir()) and the test of its
\* result.  gTTS.save opens the file and then streams the speech into it, so
\* a failure of the service leaves the file behind; generate_tts_audio
\* returns None from its except clause without removing it.
VTts(c) ==
    /\ v_pc[c] = "tts"
    /\ \/ \* gTTS(...) or open() raises: nothing written
          /\ ReturnNone(c)
          /\ Logged(c, "tts_fail", -1, -1)
          /\ UNCHANGED <<temp_files, accessed, fs>>
       \/ \* tts.save raises after the file was opened
          /\ fs' = WriteFile(fs, AudioPath(c), FileBy(c, -1))
          /\ accessed' = [accessed EXCEPT ![c] = @ \cup {AudioPath(c)}]
          /\ ReturnNone(c)
          /\ Logged(c, "tts_fail", -1, -1)
          /\ UNCHANGED temp_files
       \/ \* audio saved; temp_files.append(temp_audio_path)
          /\ fs' = WriteFile(fs, AudioPath(c), FileBy(c, -1))
          /\ accessed' = [accessed EXCEPT ![c] = @ \cup {AudioPath(c)}]
          /\ temp_files' = [temp_files EXCEPT ![c] = Append(@, AudioPath(c))]
          /\ v_pc' = [v_pc EXCEPT ![c] = "duration"]
          /\ Logged(c, "tts_ok", -1, -1)
          /\ UNCHANGED v_ret
    /\ UNCHANGED <<v_words, v_image_url, v_duration, v_i, fin_i, encoder>>
    /\ UNCHANGED nonVideoVars

\* AudioSegment.from_file(temp_audio_path) and duration_seconds
VDuration(c) ==
    /\ v_pc[c] = "duration"
    /\ accessed' = [accessed EXCEPT ![c] = @ \cup {AudioPath(c)}]
    /\ \/ \* the file cannot be decoded: except Exception
          /\ ReturnNone(c)
          /\ Logged(c, "duration_fail", -1, -1)
          /\ UNCHANGED v_duration
       \/ \E d \in 0..MaxVDurTicks :
          /\ v_duration' = [v_duration EXCEPT ![c] = d]
          /\ v_pc' = [v_pc EXCEPT ![c] = "image"]
          /\ Logged(c, "duration", -1, -1)
          /\ UNCHANGED v_ret
    /\ UNCHANGED <<v_words, v_image_url, temp_files, v_i, fin_i, encoder, fs>>
    /\ UNCHANGED nonVideoVars

\* mutant of VImage: a failed download is logged and the call carries on
\* with the frames
VImageNotFatal(c) ==
    /\ v_pc[c] = "image"
    /\ \/ Logged(c, "image_fail", -1, -1)
       \/ Logged(c, "image_ok", -1, -1)
    /\ v_pc' = [v_pc EXCEPT ![c] = "frames"]
    /\ UNCHANGED <<v_words, v_image_url, temp_files, v_duration, v_i, fin_i,
                   v_ret, encoder, accessed, fs>>
    /\ UNCHANGED nonVideoVars

\* download, decode, resize and blur the base image
VImage(c) ==
    /\ v_pc[c] = "image"
    /\ \/ \* RequestException or any other exception: return None
          /\ ReturnNone(c)
          /\ Logged(c, "image_fail", -1, -1)
       \/ /\ v_pc' = [v_pc EXCEPT ![c] = "frames"]
          /\ Logged(c, "image_ok", -1, -1)
          /\ UNCHANGED v_ret
    /\ UNCHANGED <<v_words, v_image_url, temp_files, v_duration, v_i, fin_i,
                   encoder, accessed, fs>>
    /\ UNCHANGED nonVideoVars

\* one iteration of the frame loop: render the caption, save the frame,
\* append it to frame_paths and temp_files.  Image.save removes a file it
\* created when the write fails, and leaves a truncated file when the path
\* existed before.
VFrame(c) ==
    /\ v_pc[c] = "frames"
    /\ v_i[c] < TotalFrames(v_duration[c], fps)
    /\ LET p == FramePath(c, v_i[c])
           w == WordsToShow(v_i[c], v_words[c], v_duration[c], fps)
       IN \/ \* the frame is written
             /\ fs' = WriteFile(fs, p, FileBy(c, w))
             /\ accessed' = [accessed EXCEPT ![c] = @ \cup {p}]
             /\ temp_files' = [temp_files EXCEPT ![c] = Append(@, p)]
             /\ v_i' = [v_i EXCEPT ![c] = @ + 1]
             /\ Logged(c, "frame", p.id, w)
             /\ UNCHANGED <<v_pc, v_ret>>
          \/ \* rendering raises: except Exception
             /\ ReturnNone(c)
             /\ Logged(c, "render_fail", -1, -1)
             /\ UNCHANGED <<temp_files, v_i, accessed, fs>>
          \/ \* frame_img.save raises
             /\ fs' = IF Exists(fs, p) THEN WriteFile(fs, p, FileBy(c, -1)) ELSE fs
             /\ accessed' = [accessed EXCEPT ![c] = @ \cup {p}]
             /\ ReturnNone(c)
             /\ Logged(c, "save_fail", -1, -1)
             /\ UNCHANGED <<temp_files, v_i>>
    /\ UNCHANGED <<v_words, v_image_url, v_duration, fin_i, encoder>>
    /\ UNCHANGED nonVideoVars

\* the frame loop is exhausted
VFramesEnd(c) ==
    /\ v_pc[c] = "frames"
    /\ v_i[c] >= TotalFrames(v_duration[c], fps)
    /\ v_pc' = [v_pc EXCEPT ![c] = "mux"]
    /\ UNCHANGED <<v_words, v_image_url, temp_files, v_duration, v_i, fin_i,
                   v_ret, encoder, accessed, v_log, fs>>
    /\ UNCHANGED nonVideoVars

\* the indices of the frame files on disk
FrameIndices(files) == {p.id : p \in {q \in DOMAIN files : q.kind = "frame"}}

\* the last index of the unbroken run of frame files that starts at k
RECURSIVE RunEnd(_, _)
RunEnd(files, k) ==
    IF (k + 1) \in FrameIndices(files) THEN RunEnd(files, k + 1) ELSE k

\* ffmpeg.input(f'{tempfile.gettempdir()}/frame_%05d.png'): the frame files
\* the encoder reads, the unbroken numbered run from the lowest index on disk
EncoderInput(files) ==
    IF FrameIndices(files) = {} THEN {}
    ELSE LET lo == CHOOSE k \in FrameIndices(files) :
                       \A m \in FrameIndices(files) : k <= m
         IN lo..RunEnd(files, lo)

\* ffmpeg.output(...).overwrite_output().run(...) and the return of the path
VMux(c) ==
    /\ v_pc[c] = "mux"
    /\ LET read == EncoderInput(fs)
           paths == {[kind |-> "frame", id |-> k] : k \in read}
       IN /\ encoder' = [encoder EXCEPT ![c] =
                 <<[first |-> IF read = {} THEN 0
                              ELSE CHOOSE k \in read : \A m \in read : k <= m,
                    count |-> Cardinality(read),
                    own |-> Cardinality({q \in paths : fs[q].by = c /\ fs[q].words >= 0}),
                    written |-> v_i[c]]>>]
          /\ accessed' = [accessed EXCEPT ![c] =
                 @ \cup paths \cup {AudioPath(c), OutputPath(c)}]
          /\ \/ \* the encoder succeeds: it needs at least one frame and the audio
                /\ read # {}
                /\ Exists(fs, AudioPath(c))
                /\ fs' = WriteFile(fs, OutputPath(c), FileBy(c, -1))
                /\ v_ret' = [v_ret EXCEPT ![c] = "path"]
             \/ \* ffmpeg.Error, nothing written
                /\ fs' = fs
                /\ v_ret' = [v_ret EXCEPT ![c] = "None"]
             \/ \* ffmpeg.Error after the output file was opened
                /\ fs' = WriteFile(fs, OutputPath(c), FileBy(c, -1))
                /\ v_ret' = [v_ret EXCEPT ![c] = "None"]
    /\ v_pc' = [v_pc EXCEPT ![c] = "fin_check"]
    /\ Logged(c, "encoder", -1, -1)
    /\ UNCHANGED <<v_words, v_image_url, temp_files, v_duration, v_i, fin_i>>
    /\ UNCHANGED nonVideoVars

\* finally: "for f in temp_files: if os.path.exists(f):"
VFinallyCheck(c) ==
    /\ v_pc[c] = "fin_check"
    /\ IF fin_i[c] > Len(temp_files[c])
       THEN /\ v_pc' = [v_pc EXCEPT ![c] = "done"]
            /\ UNCHANGED <<fin_i, accessed>>
       ELSE LET f == temp_files[c][fin_i[c]]
            IN /\ accessed' = [accessed EXCEPT ![c] = @ \cup {f}]
               /\ IF Exists(fs, f)
                  THEN /\ v_pc' = [v_pc EXCEPT ![c] = "fin_remove"]
                       /\ UNCHANGED fin_i
                  ELSE /\ fin_i' = [fin_i EXCEPT ![c] = @ + 1]
                       /\ UNCHANGED v_pc
    /\ UNCHANGED <<v_words, v_image_url, temp_files, v_duration, v_i, v_ret,
                   encoder, v_log, fs>>
    /\ UNCHANGED nonVideoVars

\* finally: "os.remove(f)"; FileNotFoundError leaves the function when the
\* file has gone since the test
VFinallyRemove(c) ==
    /\ v_pc[c] = "fin_remove"
    /\ LET f == temp_files[c][fin_i[c]]
       IN IF Exists(fs, f)
          THEN /\ fs' = RemoveFile(fs, f)
               /\ fin_i' = [fin_i EXCEPT ![c] = @ + 1]
               /\ v_pc' = [v_pc EXCEPT ![c] = "fin_check"]
               /\ UNCHANGED v_ret
          ELSE /\ v_ret' = [v_ret EXCEPT ![c] = "raised"]
               /\ v_pc' = [v_pc EXCEPT ![c] = "done"]
               /\ UNCHANGED <<fs, fin_i>>
    /\ UNCHANGED <<v_words, v_image_url, temp_files, v_duration, v_i, encoder,
                   accessed, v_log>>
    /\ UNCHANGED nonVideoVars

VideoInit ==
    /\ VideoIdle
    /\ PostIdle
    /\ ArticleIdle
    /\ num_words = 0 /\ audio_duration = 0 /\ sched_fps = fps
    /\ frame_i = 0 /\ schedule = <<>> /\ sched_pc = "done"

VideoNext ==
    \E c \in Calls :
        \/ VEnter(c)
        \/ VTts(c)
        \/ VDuration(c)
        \/ VImage(c)
        \/ VFrame(c)
        \/ VFramesEnd(c)
        \/ VMux(c)
        \/ VFinallyCheck(c)
        \/ VFinallyRemove(c)

SpecVideo == VideoInit /\ [][VideoNext]_vars

\* ------------------------------------------------- generate_post_image

\* target_width and target_height of generate_post_image
target_width == 1080

target_height == 1080

\* the side lengths an image fetched from the provided url may have
MaxSide == target_width + 1

Sides == {1, MaxSide}

\* os.path.join(output_dir, output_filename); process_article passes
\* f"summary_post_{os.urandom(8).hex()}.png"
PostPath(c) == [kind |-> "post", id |-> c]

\* the (new_width, new_height) resize_and_pad_image computes for a w x h image
NewSize(w, h) ==
    IF w * target_height > target_width * h
    THEN [w |-> target_width, h |-> (target_width * h) \div w]
    ELSE [w |-> (target_height * w) \div h, h |-> target_height]

\* image_pil.resize raises ValueError for a side below 1
ResizeRaises(img) == NewSize(img.w, img.h).w < 1 \/ NewSize(img.w, img.h).h < 1

\* the call takes step e
PLogged(c, e) == p_log' = [p_log EXCEPT ![c] = Append(@, e)]

\* "except Exception: return None" of generate_post_image
PReturnNone(c) ==
    /\ p_ret' = [p_ret EXCEPT ![c] = "None"]
    /\ p_pc' = [p_pc EXCEPT ![c] = "done"]

\* entry and the guard on the summary
PEnter(c) ==
    /\ p_pc[c] = "start"
    /\ \E s \in BOOLEAN, u \in BOOLEAN :
          /\ p_summary' = [p_summary EXCEPT ![c] = s]
          /\ p_url' = [p_url EXCEPT ![c] = u]
          /\ IF s
             THEN /\ p_pc' = [p_pc EXCEPT ![c] = "provided"]
                  /\ UNCHANGED p_ret
             ELSE PReturnNone(c)
    /\ UNCHANGED <<base_img_pil, p_log, fs>>
    /\ UNCHANGED nonPostVars

\* "if background_image_url:" and the download of the provided image
PProvided(c) ==
    /\ p_pc[c] = "provided"
    /\ IF p_url[c]
       THEN \/ \E w \in Sides, h \in Sides :
                 /\ base_img_pil' = [base_img_pil EXCEPT ![c] =
                        [from |-> "provided", w |-> w, h |-> h]]
                 /\ PLogged(c, "provided_ok")
            \/ \* requests.exceptions.RequestException
               /\ base_img_pil' = [base_img_pil EXCEPT ![c] = NoImage("None")]
               /\ PLogged(c, "provided_http_error")
            \/ \* any other exception: the content is not an image
               /\ base_img_pil' = [base_img_pil EXCEPT ![c] = NoImage("None")]
               /\ PLogged(c, "provided_decode_error")
       ELSE /\ base_img_pil' = [base_img_pil EXCEPT ![c] = NoImage("None")]
            /\ PLogged(c, "provided_absent")
    /\ p_pc' = [p_pc EXCEPT ![c] = "placeholder"]
    /\ UNCHANGED <<p_summary, p_url, p_ret, fs>>
    /\ UNCHANGED nonPostVars

\* "if base_img_pil is None:" the placeholder download and the black fallback
PPlaceholder(c) ==
    /\ p_pc[c] = "placeholder"
    /\ IF base_img_pil[c] = NoImage("None")
       THEN \/ /\ base_img_pil' = [base_img_pil EXCEPT ![c] =
                      [from |-> "placeholder", w |-> target_width,
                       h |-> target_height]]
               /\ PLogged(c, "placeholder_ok")
            \/ \* except Exception: Image.new("RGB", ..., (0, 0, 0))
               /\ base_img_pil' = [base_img_pil EXCEPT ![c] =
                      [from |-> "black", w |-> target_width,
                       h |-> target_height]]
               /\ PLogged(c, "placeholder_error")
       ELSE UNCHANGED <<base_img_pil, p_log>>
    /\ p_pc' = [p_pc EXCEPT ![c] = "resize"]
    /\ UNCHANGED <<p_summary, p_url, p_ret, fs>>
    /\ UNCHANGED nonPostVars

\* base_img_pil = resize_and_pad_image(base_img_pil, target_width, target_height)
PResize(c) ==
    /\ p_pc[c] = "resize"
    /\ IF ResizeRaises(base_img_pil[c])
       THEN /\ PReturnNone(c)
            /\ PLogged(c, "resize_error")
            /\ UNCHANGED base_img_pil
       ELSE /\ base_img_pil' = [base_img_pil EXCEPT ![c] =
                   [@ EXCEPT !.w = target_width, !.h = target_height]]
            /\ p_pc' = [p_pc EXCEPT ![c] = "caption"]
            /\ UNCHANGED <<p_ret, p_log>>
    /\ UNCHANGED <<p_summary, p_url, fs>>
    /\ UNCHANGED nonPostVars

\* the overlay, add_text_to_image_bottom_with_background and the border
PCaption(c) ==
    /\ p_pc[c] = "caption"
    /\ PLogged(c, "caption")
    /\ p_pc' = [p_pc EXCEPT ![c] = "save"]
    /\ UNCHANGED <<p_summary, p_url, base_img_pil, p_ret, fs>>
    /\ UNCHANGED nonPostVars

\* base_img_pil.save(final_post_full_path) and the return of the path
PSave(c) ==
    /\ p_pc[c] = "save"
    /\ \/ /\ fs' = WriteFile(fs, PostPath(c), FileBy(c, -1))
          /\ p_ret' = [p_ret EXCEPT ![c] = "path"]
          /\ p_pc' = [p_pc EXCEPT ![c] = "done"]
          /\ PLogged(c, "saved")
       \/ \* makedirs or save raises: except Exception
          /\ PReturnNone(c)
          /\ PLogged(c, "save_error")
          /\ UNCHANGED fs
    /\ UNCHANGED <<p_summary, p_url, base_img_pil>>
    /\ UNCHANGED nonPostVars

\* one call of generate_video_from_summary beside one call of
\* generate_post_image, made for another article, on one filesystem
MediaInit ==
    /\ VideoIdle
    /\ PostIdle
    /\ ArticleIdle
    /\ num_words = 0 /\ audio_duration = 0 /\ sched_fps = fps
    /\ frame_i = 0 /\ schedule = <<>> /\ sched_pc = "done"

MediaNext ==
    \/ VEnter(1)
    \/ VTts(1)
    \/ VDuration(1)
    \/ VImage(1)
    \/ VFrame(1)
    \/ VFramesEnd(1)
    \/ VMux(1)
    \/ VFinallyCheck(1)
    \/ VFinallyRemove(1)
    \/ PEnter(2)
    \/ PProvided(2)
    \/ PPlaceholder(2)
    \/ PResize(2)
    \/ PCaption(2)
    \/ PSave(2)

SpecMedia == MediaInit /\ [][MediaNext]_vars

SchedInit ==
    /\ VideoIdle
    /\ PostIdle
    /\ ArticleIdle
    /\ num_words \in 0..MaxWords
    /\ audio_duration \in 0..MaxDurTicks
    /\ sched_fps \in FpsSet
    /\ frame_i = 0
    /\ schedule = <<>>
    /\ sched_pc = "loop"

\* one iteration of "for i in range(total_frames)"
SchedFrame ==
    /\ sched_pc = "loop"
    /\ frame_i < TotalFrames(audio_duration, sched_fps)
    /\ schedule' = Append(schedule, WordsToShow(frame_i, num_words, audio_duration, sched_fps))
    /\ frame_i' = frame_i + 1
    /\ UNCHANGED <<num_words, audio_duration, sched_fps, sched_pc>>
    /\ UNCHANGED nonSchedVars

\* the loop is exhausted
SchedEnd ==
    /\ sched_pc = "loop"
    /\ frame_i >= TotalFrames(audio_duration, sched_fps)
    /\ sched_pc' = "done"
    /\ UNCHANGED <<num_words, audio_duration, sched_fps, frame_i, schedule>>
    /\ UNCHANGED nonSchedVars

SchedNext == SchedFrame \/ SchedEnd

SpecSched == SchedInit /\ [][SchedNext]_vars

\* ---------------------------------------------- one request, end to end

Init ==
    /\ ArticleIdle
    /\ VideoIdle
    /\ PostIdle
    /\ num_words = 0 /\ audio_duration = 0 /\ sched_fps = fps
    /\ frame_i = 0 /\ schedule = <<>> /\ sched_pc = "done"

Next ==
    \/ MRead
    \/ MAttempt
    \/ MSummarize
    \/ MHindi
    \/ MMarathi
    \/ MVideo
    \/ MPost
    \/ MReturn
    \/ MWrite

Spec == Init /\ [][Next]_vars

\* ------------------------------------------- claims on the reveal schedule

\* the schedule of a finished run
SchedDone == sched_pc = "done"

\* L is ceil(duration * fps): the least integer that is >= duration * fps
IsCeilOfDurationTimesFps(L) ==
    /\ L * TicksPerSec >= audio_duration * sched_fps
    /\ (L - 1) * TicksPerSec < audio_duration * sched_fps

WordsDueAt(i) ==
    Cardinality({k \in 0..(num_words - 1) :
        audio_duration * k * sched_fps <= i * num_words * TicksPerSec})

\* C4: for every frame index i the visible word count is the number of words
\* whose evenly spaced display time (duration/num_words)*k is <= i/fps; for
\* 4 words, 4.0 s and fps 2 the schedule is 1,1,2,2,3,3,4,4.
C4_EvenlyDistributed ==
    /\ \A i \in 1..Len(schedule) : schedule[i] = WordsDueAt(i - 1)
    /\ (SchedDone /\ num_words = 4 /\ audio_duration = 4 * TicksPerSec /\ sched_fps = 2)
          => schedule = <<1, 1, 2, 2, 3, 3, 4, 4>>

\* the scenario of 4 words, 4.0 s, fps 2, fully scheduled
C4_Witness ==
    /\ SchedDone
    /\ num_words = 4 /\ audio_duration = 4 * TicksPerSec /\ sched_fps = 2
    /\ Len(schedule) = 8
    /\ schedule[7] = 4

\* C5: the visible word count never decreases as the frame index grows.
C5_Monotone ==
    \A i \in 1..Len(schedule) : \A j \in 1..Len(schedule) :
        i < j => schedule[i] <= schedule[j]

\* a finished schedule whose word count grows from the first frame to the last
C5_Witness ==
    /\ SchedDone
    /\ Len(schedule) >= 3
    /\ schedule[1] < schedule[2]
    /\ schedule[2] < schedule[Len(schedule)]

\* --------------------------------------------- claims on the video pipeline

\* the temporary files (narration audio, frames) on disk that call c wrote
TempFilesLeftBy(c) ==
    {p \in DOMAIN fs : p.kind \in {"audio", "frame"} /\ fs[p].by = c}

\* C1: whenever a call of generate_video_from_summary has returned, on any
\* exit path, no temporary file it created (narration audio, frame images)
\* is still on disk.
C1_NoTempFileLeft ==
    \A c \in Calls : v_pc[c] = "done" => TempFilesLeftBy(c) = {}

\* C2: two concurrent calls of the video pipeline never use the same path:
\* no audio, frame or output path written, read by the encoder or deleted
\* by one call is a path used by the other.
C2_NoSharedPath ==
    \A c \in Calls : \A d \in Calls :
        c # d => accessed[c] \cap accessed[d] = {}

\* C11: a narration of duration <= 0 gives a schedule of length 0, and the
\* call then fails without invoking the encoder: the encoder is never run by
\* a call that has written no frame.
C11_NoEncoderWithoutFrames ==
    \A c \in Calls :
        encoder[c] # <<>> =>
            (TotalFrames(v_duration[c], fps) > 0 /\ encoder[c][1].written > 0)

\* the kinds of step call c has taken
StepsOf(c) == {v_log[c][k].ev : k \in 1..Len(v_log[c])}

\* C12: when the narration cannot be synthesized or the source image cannot
\* be fetched or decoded, the call returns no video path, writes no frame
\* file and never invokes the encoder; and the narration is completed before
\* the image fetch, the schedule and any frame.
C12_NarrationAndImageFatal ==
    \A c \in Calls :
        /\ ({"tts_fail", "image_fail"} \cap StepsOf(c) # {}) =>
              /\ v_ret[c] = "None"
              /\ encoder[c] = <<>>
              /\ "frame" \notin StepsOf(c)
              /\ v_i[c] = 0
              /\ \A p \in DOMAIN fs : p.kind \in {"frame", "out"} => fs[p].by # c
        /\ \A k \in 1..Len(v_log[c]) :
              v_log[c][k].ev \notin {"tts_ok", "tts_fail"} =>
                  (k > 1 /\ v_log[c][1].ev = "tts_ok")

\* a call has returned None after a failed image fetch, its narration
\* written, measured and removed again
C12_Witness ==
    /\ v_pc[1] = "done"
    /\ v_log[1] = <<[ev |-> "tts_ok", i |-> -1, words |-> -1],
                    [ev |-> "duration", i |-> -1, words |-> -1],
                    [ev |-> "image_fail", i |-> -1, words |-> -1]>>
    /\ v_ret[1] = "None"
    /\ temp_files[1] = <<AudioPath(1)>>
    /\ AudioPath(1) \notin DOMAIN fs

\* the frames call c has written, in the order it wrote them
FrameSteps(c) == SelectSeq(v_log[c], LAMBDA e : e.ev = "frame")

\* C14: with N = total_frames, one call writes frame_00000 .. frame_(N-1)
\* without gaps or duplicates and in increasing order, the file with index i
\* shows schedule entry i, and the encoder is invoked only after all N frames
\* have been written.
C14_FramesContiguous ==
    \A c \in Calls :
        LET fr == FrameSteps(c)
            N == TotalFrames(v_duration[c], fps)
        IN /\ Len(fr) <= N
           /\ Len(fr) = v_i[c]
           /\ \A k \in 1..Len(fr) :
                 /\ fr[k].i = k - 1
                 /\ fr[k].words = WordsToShow(k - 1, v_words[c], v_duration[c], fps)
           /\ \A k \in 1..Len(v_log[c]) :
                 v_log[c][k].ev = "encoder" =>
                     /\ Len(fr) = N
                     /\ k = Len(v_log[c])
                     /\ \A j \in 1..(k - 1) : v_log[c][j].ev # "encoder"

\* a call has written two frames, the first with one word and the second
\* with two, and has then run the encoder
C14_Witness ==
    /\ "encoder" \in StepsOf(1)
    /\ Len(FrameSteps(1)) = 2
    /\ FrameSteps(1)[1].words = 1
    /\ FrameSteps(1)[2].words = 2

\* ------------------------------------------- claims on generate_post_image

\* the kinds of step call c of generate_post_image has taken
PStepsOf(c) == {p_log[c][k] : k \in 1..Len(p_log[c])}

\* C13: given a non-empty summary, generate_post_image never fails for want
\* of a usable background: it reaches the captioning with exactly one of the
\* provided image, the placeholder and the black canvas, requests the
\* placeholder only when the provided image was unusable and uses the black
\* canvas only when the placeholder failed too.
C13_BackgroundNeverFatal ==
    \A c \in Calls :
        /\ ({"placeholder_ok", "placeholder_error"} \cap PStepsOf(c) # {}) =>
               "provided_ok" \notin PStepsOf(c)
        /\ base_img_pil[c].from = "black" => "placeholder_error" \in PStepsOf(c)
        /\ "caption" \in PStepsOf(c) =>
               base_img_pil[c].from \in {"provided", "placeholder", "black"}
        /\ (p_summary[c] /\ p_pc[c] = "done") => "caption" \in PStepsOf(c)

\* C15: the cleanup never deletes a final artifact: no output path is ever in
\* temp_files, no step removes an output video or a post image, and an
\* artifact whose path was returned exists when the function has returned.
C15_ArtifactsKept ==
    /\ [](\A c \in Calls :
            /\ \A k \in 1..Len(temp_files[c]) :
                  temp_files[c][k].kind \notin {"out", "post"}
            /\ (v_pc[c] = "done" /\ v_ret[c] = "path") => Exists(fs, OutputPath(c))
            /\ (p_pc[c] = "done" /\ p_ret[c] = "path") => Exists(fs, PostPath(c)))
    /\ [][\A p \in DOMAIN fs :
              p.kind \in {"out", "post"} => p \in DOMAIN fs']_vars

\* both functions have returned a path, the cleanup has removed the
\* narration and every frame, and both artifacts are on disk
C15_Witness ==
    /\ v_pc[1] = "done" /\ v_ret[1] = "path"
    /\ p_pc[2] = "done" /\ p_ret[2] = "path"
    /\ Len(temp_files[1]) = 3
    /\ DOMAIN fs = {OutputPath(1), PostPath(2)}

\* ------------------------------------- claims on process_article and main

\* the error string holds the given note
HasNote(note) == \E k \in 1..Len(response_data["error"]) : response_data["error"][k] = note

\* the download failure was recorded as the error of the response
DownloadFailureRecorded == HasNote("Failed to download article after 3 attempts")

\* the article was extracted and process_article is past its last stage
StagesOver == article.fetched /\ m_pc \in {"return", "write", "exit"}

\* the stages after the extraction
Stages == {"summarize", "hindi", "marathi", "video", "post"}

\* the stages that were called
StagesRan == {ran[k] : k \in 1..Len(ran)}

\* C6 (as stated): a fetch failure is retried with backoff delays of 1 s, 2 s
\* and 4 s; only then is it recorded as the error, and no later stage runs.
C6_AsStated ==
    DownloadFailureRecorded => (sleeps = <<1, 2, 4>> /\ ran = <<>>)

\* C6 (amended): a fetch failure (a RequestException) is attempted
\* MAX_RETRIES = 3 times in all, with backoff delays of 1 s and 2 s between
\* the attempts and none after the last; only when the third attempt has
\* failed is it recorded as the error, and then no later stage runs and the
\* response carries no summary, translation, video or post image.
C6_Amended ==
    /\ (m_pc = "attempt" => /\ response_data["error"] = <<>>
                            /\ attempt < MAX_RETRIES
                            /\ sleeps = [k \in 1..attempt |-> 2 ^ (k - 1)])
    /\ DownloadFailureRecorded =>
          /\ attempt = MAX_RETRIES - 1
          /\ sleeps = <<1, 2>>
          /\ ran = <<>>
          /\ ~article.fetched
          /\ \A f \in {"summary", "trans_hindi", "trans_marathi", "video_path",
                       "post_image_path"} : response_data[f] = "None"

\* the script has ended after three failed downloads
C6_Witness ==
    /\ m_pc = "exit"
    /\ DownloadFailureRecorded
    /\ Len(sleeps) = 2
    /\ Len(stdout) = 1

\* C7 (as stated): once the article is fetched, a failure of any one of the
\* summarization, translation, video and post-image stages leaves every
\* other stage attempted (the article having a top image to make a video of).
C7_AsStated ==
    (StagesOver /\ failed # {} /\ article.top_image) => StagesRan = Stages

\* C7 (amended): once the article is fetched and summarized, a failure of a
\* translation, of the video generation or of the post image does not abort
\* the other stages: both translations and the post image are attempted, and
\* the video whenever the article has a top image.  A failed summarization
\* leaves no summary, and then none of the translation, video and post-image
\* stages is attempted.
C7_Amended ==
    StagesOver =>
        /\ response_data["summary"] # "None" =>
              /\ {"hindi", "marathi", "post"} \subseteq StagesRan
              /\ article.top_image => "video" \in StagesRan
        /\ response_data["summary"] = "None" =>
              StagesRan \cap {"hindi", "marathi", "video", "post"} = {}

\* a translation and the video generation failed, and every stage was called
C7_Witness ==
    /\ StagesOver
    /\ {"hindi", "video"} \subseteq failed
    /\ StagesRan = Stages
    /\ response_data["trans_marathi"] = "val"
    /\ response_data["post_image_path"] = "val"

\* the notes that record the failure of a stage in the error string
NotesOf(stage) ==
    CASE stage = "summarize" -> {"Summarization failed"}
      [] stage = "video" -> {"Video generation failed.", "Unexpected video generation error"}
      [] stage = "post" -> {"Post image generation failed.", "Unexpected post image generation error"}
      [] OTHER -> {}

\* the failure of the stage is recorded in the error string
Recorded(stage) ==
    /\ response_data["error"] # <<>>
    /\ NotesOf(stage) # {} => \E note \in NotesOf(stage) : HasNote(note)

\* every note of the error string is kept, in place, by the step
NotesKept ==
    /\ Len(response_data["error"]') >= Len(response_data["error"])
    /\ \A k \in 1..Len(response_data["error"]) :
          response_data["error"]'[k] = response_data["error"][k]

\* C8 (as stated): every failure of the summarization, a translation, the
\* video generation or the post image is recorded in the error string of the
\* response.
C8_AsStated ==
    StagesOver => \A stage \in failed : Recorded(stage)

\* C8 (amended): every failure of the summarization, the video generation or
\* the post image is recorded in the error string, and by appending: no step
\* removes a note the string already holds.  A failed translation is not
\* recorded in the error string: alone, it leaves error null and its
\* translation field null.
C8_Amended ==
    /\ [](StagesOver =>
            /\ \A stage \in failed \cap {"summarize", "video", "post"} : Recorded(stage)
            /\ (failed # {} /\ failed \subseteq {"hindi", "marathi"}
                /\ response_data["video_path"] # "None")
                  => response_data["error"] = <<>>
            /\ "hindi" \in failed => response_data["trans_hindi"] = "None"
            /\ "marathi" \in failed => response_data["trans_marathi"] = "None")
    /\ [][NotesKept]_vars

\* the video and the post image both failed after a failed translation, and
\* the response is returned with both notes
C8_Witness ==
    /\ m_pc = "exit"
    /\ failed = {"hindi", "video", "post"}
    /\ response_data["error"] = <<"Video generation failed.", "Post image generation failed.">>

\* C9 (as stated): for every request the caller receives on standard output
\* exactly one JSON object with all the response fields.
C9_AsStated ==
    m_pc = "exit" => (Len(stdout) = 1 /\ DOMAIN stdout[1] = ResponseFields)

\* C9 (amended): a request that is a JSON object with a url receives on
\* standard output exactly one JSON object with all the response fields,
\* whatever stage fails; a JSON object without url receives exactly one JSON
\* object carrying only error; input that is not a JSON object receives
\* nothing on standard output, and one JSON object with an error on standard
\* error.
C9_Amended ==
    /\ Len(stdout) <= 1
    /\ m_pc = "exit" =>
          /\ request = "url" =>
                (Len(stdout) = 1 /\ DOMAIN stdout[1] = ResponseFields /\ stderr = <<>>)
          /\ request = "nourl" =>
                (Len(stdout) = 1 /\ DOMAIN stdout[1] = {"error"} /\ stdout[1].error # <<>>
                 /\ stderr = <<>>)
          /\ request \in {"malformed", "nonobject"} =>
                (stdout = <<>> /\ Len(stderr) = 1)

\* a request with a url, a stage of which failed, has been answered
C9_Witness ==
    /\ m_pc = "exit"
    /\ request = "url"
    /\ failed # {}
    /\ Len(stdout) = 1
    /\ stdout[1]["error"] # <<>>

\* C10 (as stated): the exit status is non-zero exactly when the input is
\* not valid JSON, carries no url, or an uncaught error reaches the top
\* level.
C10_AsStated ==
    m_pc = "exit" =>
        (exit_code # 0 <=> request \in {"malformed", "nonobject", "nourl"})

\* C10 (amended): the exit status is non-zero exactly when the input is not
\* valid JSON or an uncaught error reaches the top level (input that is no
\* JSON object).  A request without url exits with status zero and the error
\* "No URL provided."; every failure inside process_article exits with
\* status zero, and a failed summarization, video, post image or exhausted
\* download is reported in the error field.
C10_Amended ==
    /\ m_pc # "exit" => exit_code = -1
    /\ m_pc = "exit" =>
          /\ exit_code \in {0, 1}
          /\ exit_code # 0 <=> request \in {"malformed", "nonobject"}
          /\ request = "nourl" => stdout[1].error = <<"No URL provided.">>
          /\ (request = "url" /\ (~article.fetched
                                  \/ failed \cap {"summarize", "video", "post"} # {}))
                => (exit_code = 0 /\ stdout[1]["error"] # <<>>)

\* the script has exited with status zero after a failed video generation
C10_Witness ==
    /\ m_pc = "exit"
    /\ exit_code = 0
    /\ "video" \in failed
    /\ stdout[1]["error"] # <<>>

\* process_article has returned its response
Returned == request = "url" /\ m_pc \in {"write", "exit"}

\* the summary, the video path and the post image path are all non-null
AllProduced ==
    /\ response_data["summary"] # "None"
    /\ response_data["video_path"] # "None"
    /\ response_data["post_image_path"] # "None"

\* C16: in every response process_article returns, error is null if and only
\* if the summary was produced and both the video and the post image were
\* generated.
C16_ErrorNullIffProduced ==
    /\ (Returned \/ m_pc = "return") => (response_data["error"] = <<>> <=> AllProduced)
    /\ \A k \in 1..Len(stdout) :
          "summary" \in DOMAIN stdout[k] =>
              (stdout[k]["error"] = <<>> <=>
                  /\ stdout[k]["summary"] # "None"
                  /\ stdout[k]["video_path"] # "None"
                  /\ stdout[k]["post_image_path"] # "None")

\* a response without error was written although a translation had failed
C16_Witness ==
    /\ m_pc = "exit"
    /\ Returned
    /\ response_data["error"] = <<>>
    /\ AllProduced
    /\ "marathi" \in failed
    /\ response_data["trans_marathi"] = "None"

\* the number of times the stage was called
TimesRan(stage) == Cardinality({k \in 1..Len(ran) : ran[k] = stage})

\* C17: over all attempts of one call each stage after the extraction runs at
\* most once: an attempt only ever starts, and a retry is only ever taken,
\* while no response field is assigned and no stage has run.
C17_StagesAtMostOnce ==
    /\ [](/\ \A stage \in Stages : TimesRan(stage) <= 1
          /\ m_pc = "attempt" => (response_data = InitialResponse /\ ran = <<>>))
    /\ [][attempt' # attempt =>
              /\ response_data = InitialResponse
              /\ response_data' = InitialResponse
              /\ ran = <<>> /\ ran' = <<>>]_vars

\* the third attempt extracted the article and every stage then ran once
C17_Witness ==
    /\ m_pc = "exit"
    /\ attempt = MAX_RETRIES - 1
    /\ sleeps = <<1, 2>>
    /\ ran = <<"summarize", "hindi", "marathi", "video", "post">>

====
